---- MODULE Spec2Model ----
(***************************************************************************)
(* Report ingestion and schema evolution of the cohort-health-sentinel     *)
(* scripts (scripts/postgres_ingest.py and scripts/db_sync.py).            *)
(*                                                                         *)
(* A deployment runs one of the two scripts against one namespace.  The    *)
(* datastore is PostgreSQL at READ COMMITTED: statements of a transaction   *)
(* are visible to others only after commit, DDL is transactional, table    *)
(* locks are held until the transaction ends, identifier generators        *)
(* (sequence / gen_random_uuid) are not rolled back.                       *)
(*                                                                         *)
(* Conventions                                                             *)
(*   - a stored column value is NULL (the empty tuple) or <<v>>            *)
(*   - decimal numbers are integers counting 1/10000                        *)
(*   - a text built by splitting or joining is the sequence of its pieces  *)
(*   - the four tables are named by role: "report" (reports / runs),        *)
(*     "top" (top_risks), "cohort" (cohort_summaries / cohort_metrics),     *)
(*     "alert" (alerts / cohort_alerts)                                     *)
(*   - the surrogate "id SERIAL" of db_sync's child tables is not modelled  *)
(***************************************************************************)
EXTENDS Integers, Sequences, FiniteSets, TLC

\* Bound: total number of script invocations in one behaviour.
MaxRuns == 2

Procs == {"a", "b"}
Scripts == {"postgres_ingest", "db_sync"}
Roles == {"report", "top", "cohort", "alert"}
ChildRoles == {"top", "cohort", "alert"}

NULL == <<>>
Some(v) == <<v>>

RECURSIVE Pow10(_)
Pow10(n) == IF n = 0 THEN 1 ELSE 10 * Pow10(n - 1)

Abs(v) == IF v < 0 THEN -v ELSE v

Range(s) == {s[i] : i \in 1..Len(s)}

(***************************************************************************)
(* JSON payloads.  An object is a function on its present keys.            *)
(***************************************************************************)
Has(obj, key) == key \in DOMAIN obj

\* dict.get(key, default)
Get(obj, key, default) == IF Has(obj, key) THEN obj[key] ELSE default

\* dict.get(key, default) bound as a statement parameter
GetParam(obj, key, default) == Some(Get(obj, key, default))

\* dict.get(key): None when the key is absent
GetOrNone(obj, key) == IF Has(obj, key) THEN Some(obj[key]) ELSE NULL

EmptyObject == <<>>

SampleReports ==
  [ only_valid |-> [records |-> [valid |-> 5]],
    full |->
      [ reference_date |-> <<"2026", "01", "05">>,
        cohort_filter |-> <<"A", "B">>,
        alert_threshold |-> 3500,
        min_cohort_size |-> 3,
        records |-> [valid |-> 40, invalid |-> 2],
        invalid_breakdown |-> [columns |-> 1, numeric |-> 1, date_format |-> 0, range |-> 0],
        clamped_values |-> 4,
        missing |-> [ids |-> 1, dates |-> 2],
        date_anomalies |-> [future_dates |-> 1],
        risk_mix |-> [high |-> 10, medium |-> 20, low |-> 10],
        top_risks |-> << [id |-> "S1", cohort |-> "A", score |-> 90, days_since |-> 10,
                          touchpoints_30d |-> 2, attendance_rate |-> 5000,
                          satisfaction_score |-> 32000],
                        [id |-> "S3", cohort |-> "B", score |-> 71, days_since |-> 33,
                          touchpoints_30d |-> 0, attendance_rate |-> 8755,
                          satisfaction_score |-> 31250] >>,
        cohorts |-> << [cohort |-> "A", count |-> 40, high |-> 10, medium |-> 20, low |-> 10,
                        risk_index |-> 12500, avg_touchpoints_30d |-> 21000,
                        avg_attendance |-> 8000, avg_satisfaction |-> 41000,
                        avg_days_since |-> 95000] >>,
        alerts |-> << [cohort |-> "A", high_share |-> 2500, risk_index |-> 12500, count |-> 40,
                       high |-> 10, medium |-> 20, low |-> 10, avg_days_since |-> 95000,
                       avg_attendance |-> 8000, avg_satisfaction |-> 41000],
                      [cohort |-> "B", high_share |-> 5000, risk_index |-> 20000, count |-> 8,
                       high |-> 4, medium |-> 2, low |-> 2, avg_days_since |-> 120000,
                       avg_attendance |-> 7000, avg_satisfaction |-> 30000] >> ],
    sparse |->
      [ reference_date |-> <<"today">>,
        records |-> [invalid |-> 1],
        top_risks |-> << [id |-> "S2"] >>,
        cohorts |-> << [cohort |-> "B", count |-> 8] >> ],
    overflow |->
      [ reference_date |-> <<"2026", "02", "30">>,
        cohort_filter |-> << >>,
        records |-> [valid |-> 9],
        top_risks |-> << [id |-> "S4", cohort |-> "A", score |-> 55, days_since |-> 4,
                          touchpoints_30d |-> 6, attendance_rate |-> 9000,
                          satisfaction_score |-> 45000] >>,
        alerts |-> << [cohort |-> "A", high_share |-> 2500, risk_index |-> 12500, count |-> 40,
                       high |-> 10, medium |-> 20, low |-> 10, avg_days_since |-> 95000,
                       avg_attendance |-> 8000, avg_satisfaction |-> 41000],
                      [cohort |-> "B", high_share |-> 10000000, risk_index |-> 20000, count |-> 8,
                       high |-> 4, medium |-> 2, low |-> 2, avg_days_since |-> 120000,
                       avg_attendance |-> 7000, avg_satisfaction |-> 30000] >> ],
    negative |->
      [ alert_threshold |-> -2500,
        records |-> [valid |-> -3, invalid |-> 2] ] ]

ReportNames == DOMAIN SampleReports

\* What --json can name: a missing file, a file that is not JSON, or a report.
JsonFiles == {"missing", "malformed"} \cup ReportNames

(***************************************************************************)
(* Column definitions.  kind is "int", "text", "date", "key", "time" or    *)
(* "numeric" (with precision prec and scale scale); dflt is "none", "zero" *)
(* (DEFAULT 0), "gen" (generated identifier) or "now".                     *)
(***************************************************************************)
Col(name, kind, notnull, dflt) ==
  [name |-> name, kind |-> kind, notnull |-> notnull, dflt |-> dflt, prec |-> 0, scale |-> 0]

Num(name, prec, scale, dflt) ==
  [name |-> name, kind |-> "numeric", notnull |-> TRUE, dflt |-> dflt, prec |-> prec, scale |-> scale]

\* CREATE TABLE IF NOT EXISTS ... of setup_schema (postgres_ingest.py)
IngestTables ==
  [ report |-> << Col("report_id", "key", TRUE, "gen"),
                  Col("created_at", "time", TRUE, "now"),
                  Col("reference_date", "text", TRUE, "none"),
                  Col("cohort_filter", "text", FALSE, "none"),
                  Col("valid_records", "int", TRUE, "none"),
                  Col("invalid_records", "int", TRUE, "none"),
                  Col("invalid_columns", "int", TRUE, "zero"),
                  Col("invalid_numeric", "int", TRUE, "zero"),
                  Col("invalid_date_format", "int", TRUE, "zero"),
                  Col("invalid_range", "int", TRUE, "zero"),
                  Col("clamped_values", "int", TRUE, "zero"),
                  Col("missing_ids", "int", TRUE, "none"),
                  Col("missing_dates", "int", TRUE, "none"),
                  Col("future_dates", "int", TRUE, "zero"),
                  Col("risk_high", "int", TRUE, "none"),
                  Col("risk_medium", "int", TRUE, "none"),
                  Col("risk_low", "int", TRUE, "none"),
                  Num("alert_threshold", 5, 2, "none"),
                  Col("min_cohort_size", "int", TRUE, "none"),
                  Col("source_label", "text", FALSE, "none") >>,
    top |-> << Col("report_id", "key", TRUE, "none"),
               Col("scholar_id", "text", TRUE, "none"),
               Col("cohort", "text", TRUE, "none"),
               Col("score", "int", TRUE, "none"),
               Col("days_since", "int", TRUE, "none"),
               Col("touchpoints_30d", "int", TRUE, "none"),
               Num("attendance_rate", 5, 2, "none"),
               Num("satisfaction_score", 5, 2, "none") >>,
    cohort |-> << Col("report_id", "key", TRUE, "none"),
                  Col("cohort", "text", TRUE, "none"),
                  Col("count", "int", TRUE, "none"),
                  Col("high", "int", TRUE, "none"),
                  Col("medium", "int", TRUE, "none"),
                  Col("low", "int", TRUE, "none"),
                  Num("risk_index", 6, 2, "zero"),
                  Num("avg_touchpoints_30d", 6, 2, "none"),
                  Num("avg_attendance", 5, 2, "none"),
                  Num("avg_satisfaction", 5, 2, "none"),
                  Num("avg_days_since", 6, 1, "none") >>,
    alert |-> << Col("report_id", "key", TRUE, "none"),
                 Col("cohort", "text", TRUE, "none"),
                 Num("high_share", 5, 2, "none"),
                 Num("risk_index", 6, 2, "zero"),
                 Col("count", "int", TRUE, "none"),
                 Col("high", "int", TRUE, "none"),
                 Col("medium", "int", TRUE, "none"),
                 Col("low", "int", TRUE, "none"),
                 Num("avg_days_since", 6, 1, "none"),
                 Num("avg_attendance", 5, 2, "none"),
                 Num("avg_satisfaction", 5, 2, "none") >> ]

\* ALTER TABLE ... ADD COLUMN IF NOT EXISTS ... of setup_schema, in order
IngestAdded ==
  [ report |-> << Col("future_dates", "int", TRUE, "zero"),
                  Col("invalid_columns", "int", TRUE, "zero"),
                  Col("invalid_numeric", "int", TRUE, "zero"),
                  Col("invalid_date_format", "int", TRUE, "zero"),
                  Col("invalid_range", "int", TRUE, "zero"),
                  Col("clamped_values", "int", TRUE, "zero") >>,
    top |-> << >>,
    cohort |-> << Num("risk_index", 6, 2, "zero") >>,
    alert |-> << Num("risk_index", 6, 2, "zero") >> ]

\* CREATE INDEX IF NOT EXISTS ... of setup_schema: name, table, column
IngestIndexes ==
  << [name |-> "idx_reports_created_at", role |-> "report", column |-> "created_at"],
     [name |-> "idx_top_risks_report", role |-> "top", column |-> "report_id"],
     [name |-> "idx_cohort_summaries_report", role |-> "cohort", column |-> "report_id"],
     [name |-> "idx_alerts_report", role |-> "alert", column |-> "report_id"] >>

\* CREATE TABLE IF NOT EXISTS ... of ensure_schema (db_sync.py)
SyncTables ==
  [ report |-> << Col("id", "key", TRUE, "gen"),
                  Col("reference_date", "date", FALSE, "none"),
                  Col("created_at", "time", TRUE, "now"),
                  Num("alert_threshold", 6, 3, "none"),
                  Col("min_cohort_size", "int", TRUE, "none"),
                  Col("valid_count", "int", TRUE, "none"),
                  Col("invalid_count", "int", TRUE, "none"),
                  Col("invalid_columns", "int", TRUE, "zero"),
                  Col("invalid_numeric", "int", TRUE, "zero"),
                  Col("invalid_date_format", "int", TRUE, "zero"),
                  Col("invalid_range", "int", TRUE, "zero"),
                  Col("clamped_values", "int", TRUE, "zero"),
                  Col("missing_ids", "int", TRUE, "none"),
                  Col("missing_dates", "int", TRUE, "none"),
                  Col("future_dates", "int", TRUE, "zero") >>,
    top |-> << Col("run_id", "key", TRUE, "none"),
               Col("scholar_id", "text", TRUE, "none"),
               Col("cohort", "text", TRUE, "none"),
               Col("score", "int", TRUE, "none"),
               Col("days_since", "int", TRUE, "none"),
               Col("touchpoints_30d", "int", TRUE, "none"),
               Num("attendance_rate", 5, 3, "none"),
               Num("satisfaction_score", 5, 2, "none") >>,
    cohort |-> << Col("run_id", "key", TRUE, "none"),
                  Col("cohort", "text", TRUE, "none"),
                  Col("count", "int", TRUE, "none"),
                  Col("high", "int", TRUE, "none"),
                  Col("medium", "int", TRUE, "none"),
                  Col("low", "int", TRUE, "none"),
                  Num("risk_index", 6, 3, "zero"),
                  Num("avg_touchpoints_30d", 6, 3, "none"),
                  Num("avg_attendance", 6, 3, "none"),
                  Num("avg_satisfaction", 6, 3, "none"),
                  Num("avg_days_since", 6, 3, "none") >>,
    alert |-> << Col("run_id", "key", TRUE, "none"),
                 Col("cohort", "text", TRUE, "none"),
                 Num("high_share", 6, 3, "none"),
                 Num("risk_index", 6, 3, "zero"),
                 Col("count", "int", TRUE, "none"),
                 Col("high", "int", TRUE, "none"),
                 Col("medium", "int", TRUE, "none"),
                 Col("low", "int", TRUE, "none"),
                 Num("avg_days_since", 6, 3, "none"),
                 Num("avg_attendance", 6, 3, "none"),
                 Num("avg_satisfaction", 6, 3, "none") >> ]

\* ALTER TABLE ... ADD COLUMN IF NOT EXISTS ... of ensure_schema, in order
SyncAdded ==
  [ report |-> << Col("future_dates", "int", TRUE, "zero"),
                  Col("invalid_columns", "int", TRUE, "zero"),
                  Col("invalid_numeric", "int", TRUE, "zero"),
                  Col("invalid_date_format", "int", TRUE, "zero"),
                  Col("invalid_range", "int", TRUE, "zero"),
                  Col("clamped_values", "int", TRUE, "zero") >>,
    top |-> << >>,
    cohort |-> << Num("risk_index", 6, 3, "zero") >>,
    alert |-> << Num("risk_index", 6, 3, "zero") >> ]

SyncIndexes == << >>

TableDefs(script) == IF script = "postgres_ingest" THEN IngestTables ELSE SyncTables
AddedDefs(script) == IF script = "postgres_ingest" THEN IngestAdded ELSE SyncAdded
IndexDefs(script) == IF script = "postgres_ingest" THEN IngestIndexes ELSE SyncIndexes

\* the identifier column of the parent table and the referencing column of the children
IdCol(script) == IF script = "postgres_ingest" THEN "report_id" ELSE "id"
FkCol(script) == IF script = "postgres_ingest" THEN "report_id" ELSE "run_id"

ColNames(defs) == {defs[i].name : i \in 1..Len(defs)}
ColDefOf(defs, name) == CHOOSE d \in Range(defs) : d.name = name

\* the current shape: every column the script's DDL names
CurrentShape(script) == [r \in Roles |-> ColNames(TableDefs(script)[r])]

\* the columns introduced after the initial shape
AddedCols(script) == [r \in Roles |-> ColNames(AddedDefs(script)[r])]

(***************************************************************************)
(* The datastore as one session sees it: a view is                         *)
(*   [namespace, extension : BOOLEAN, cols : role -> set of column names   *)
(*    ({} when the table does not exist), indexes : set of index names,    *)
(*    rows : role -> sequence of rows (functions column -> value)].        *)
(* A statement returns [ok, v]: ok = FALSE when the datastore raises.      *)
(***************************************************************************)
Ok(v) == [ok |-> TRUE, v |-> v]
Raise(v) == [ok |-> FALSE, v |-> v]

EmptyStore ==
  [ namespace |-> FALSE, extension |-> FALSE,
    cols |-> [r \in Roles |-> {}], indexes |-> {},
    rows |-> [r \in Roles |-> << >>] ]

DefaultValue(def) == IF def.dflt = "zero" THEN Some(0) ELSE NULL

\* CREATE EXTENSION IF NOT EXISTS pgcrypto
CreateExtensionIfNotExists(v) == Ok([v EXCEPT !.extension = TRUE])

\* CREATE SCHEMA IF NOT EXISTS
CreateSchemaIfNotExists(v) == Ok([v EXCEPT !.namespace = TRUE])

\* CREATE TABLE IF NOT EXISTS: a child table REFERENCES the parent table
CreateTableIfNotExists(v, defs, r) ==
  IF ~v.namespace THEN Raise(v)
  ELSE IF v.cols[r] # {} THEN Ok(v)
  ELSE IF r \in ChildRoles /\ v.cols["report"] = {} THEN Raise(v)
  ELSE Ok([v EXCEPT !.cols[r] = ColNames(defs)])

\* mutant: ADD COLUMN without IF NOT EXISTS raises on a column that exists
AddColumnUnguarded(v, r, def) ==
  IF v.cols[r] = {} \/ def.name \in v.cols[r] THEN Raise(v)
  ELSE Ok([v EXCEPT
             !.cols[r] = @ \cup {def.name},
             !.rows[r] = [i \in 1..Len(@) |->
                            [c \in DOMAIN @[i] \cup {def.name} |->
                               IF c = def.name THEN DefaultValue(def) ELSE @[i][c]]]])

\* mutant: the column is added without NOT NULL DEFAULT 0
AddColumnNullable(v, r, def) ==
  IF v.cols[r] = {} THEN Raise(v)
  ELSE IF def.name \in v.cols[r] THEN Ok(v)
  ELSE Ok([v EXCEPT
             !.cols[r] = @ \cup {def.name},
             !.rows[r] = [i \in 1..Len(@) |->
                            [c \in DOMAIN @[i] \cup {def.name} |->
                               IF c = def.name THEN NULL ELSE @[i][c]]]])

\* ALTER TABLE ... ADD COLUMN IF NOT EXISTS ... NOT NULL DEFAULT 0
AddColumnIfNotExists(v, r, def) ==
  IF v.cols[r] = {} THEN Raise(v)
  ELSE IF def.name \in v.cols[r] THEN Ok(v)
  ELSE IF def.notnull /\ DefaultValue(def) = NULL /\ v.rows[r] # << >> THEN Raise(v)
  ELSE Ok([v EXCEPT
             !.cols[r] = @ \cup {def.name},
             !.rows[r] = [i \in 1..Len(@) |->
                            [c \in DOMAIN @[i] \cup {def.name} |->
                               IF c = def.name THEN DefaultValue(def) ELSE @[i][c]]]])

\* CREATE INDEX IF NOT EXISTS name ON table(column)
CreateIndexIfNotExists(v, idx) ==
  IF v.cols[idx.role] = {} THEN Raise(v)
  ELSE IF idx.name \in v.indexes THEN Ok(v)
  ELSE IF idx.column \notin v.cols[idx.role] THEN Raise(v)
  ELSE Ok([v EXCEPT !.indexes = @ \cup {idx.name}])

RECURSIVE AddColumns(_, _, _, _)
AddColumns(res, r, defs, i) ==
  IF i > Len(defs) \/ ~res.ok THEN res
  ELSE AddColumns(AddColumnIfNotExists(res.v, r, defs[i]), r, defs, i + 1)

RECURSIVE CreateIndexes(_, _, _)
CreateIndexes(res, idxs, i) ==
  IF i > Len(idxs) \/ ~res.ok THEN res
  ELSE CreateIndexes(CreateIndexIfNotExists(res.v, idxs[i]), idxs, i + 1)

\* the statements of setup_schema / ensure_schema, grouped by the object they act on
SetupSteps(script) ==
  IF script = "postgres_ingest"
  THEN <<"namespace", "report", "top", "cohort", "alert", "indexes">>
  ELSE <<"namespace", "report", "top", "cohort", "alert">>

NamespaceStep(script, v) ==
  IF script = "postgres_ingest"
  THEN CreateSchemaIfNotExists(CreateExtensionIfNotExists(v).v)
  ELSE CreateSchemaIfNotExists(v)

TableStep(script, v, r) ==
  AddColumns(CreateTableIfNotExists(v, TableDefs(script)[r], r), r, AddedDefs(script)[r], 1)

SetupStep(script, v, step) ==
  IF step = "namespace" THEN NamespaceStep(script, v)
  ELSE IF step = "indexes" THEN CreateIndexes(Ok(v), IndexDefs(script), 1)
  ELSE TableStep(script, v, step)

RECURSIVE RunSteps(_, _, _, _)
RunSteps(script, res, steps, i) ==
  IF i > Len(steps) \/ ~res.ok THEN res
  ELSE RunSteps(script, SetupStep(script, res.v, steps[i]), steps, i + 1)

\* setup_schema(conn, schema) / ensure_schema(cur) as one call on a view
setup_schema(script, v) == RunSteps(script, Ok(v), SetupSteps(script), 1)

(***************************************************************************)
(* Values bound to the INSERT statements.                                  *)
(***************************************************************************)
\* "" split on "-"
EmptyString == <<"">>

\* int(part): defined on the numerals, ValueError elsewhere
Numerals == { <<"2026", 2026>>, <<"01", 1>>, <<"02", 2>>, <<"05", 5>>, <<"30", 30>> }
IsNumeral(part) == \E n \in Numerals : n[1] = part
IntOf(part) == (CHOOSE n \in Numerals : n[1] = part)[2]

IsLeap(y) == (y % 4 = 0 /\ y % 100 # 0) \/ y % 400 = 0

DaysInMonth(y, m) ==
  IF m = 2 THEN (IF IsLeap(y) THEN 29 ELSE 28)
  ELSE IF m \in {4, 6, 9, 11} THEN 30 ELSE 31

\* date.today()
Today == <<2026, 11, 5>>

\* parse_reference_date(raw) of db_sync.py; raw is the text split on "-"
parse_reference_date(raw) ==
  IF raw = EmptyString THEN NULL
  ELSE IF raw = <<"today">> THEN Some(Today)
  ELSE IF Len(raw) # 3 \/ \E i \in 1..Len(raw) : ~IsNumeral(raw[i]) THEN NULL
  ELSE LET y == IntOf(raw[1])
           m == IntOf(raw[2])
           d == IntOf(raw[3])
       IN IF y \in 1..9999 /\ m \in 1..12 /\ d \in 1..DaysInMonth(y, m)
          THEN Some(<<y, m, d>>) ELSE NULL

\* ",".join(list)
RECURSIVE Join(_)
Join(list) ==
  IF Len(list) = 0 THEN << >>
  ELSE IF Len(list) = 1 THEN <<list[1]>>
  ELSE <<list[1], ",">> \o Join(Tail(list))

\* cohort_filter_text of ingest_report
CohortFilterText(report) ==
  LET cohort_filter == GetOrNone(report, "cohort_filter")
  IN IF cohort_filter # NULL /\ cohort_filter[1] # << >>
     THEN Some(Join(cohort_filter[1])) ELSE NULL

\* the parameters of INSERT INTO reports (ingest_report)
IngestReportParams(report, source_label) ==
  LET records == Get(report, "records", EmptyObject)
      invalid_breakdown == Get(report, "invalid_breakdown", EmptyObject)
      missing == Get(report, "missing", EmptyObject)
      date_anomalies == Get(report, "date_anomalies", EmptyObject)
      risk_mix == Get(report, "risk_mix", EmptyObject)
  IN [ reference_date |-> GetParam(report, "reference_date", EmptyString),
       cohort_filter |-> CohortFilterText(report),
       valid_records |-> GetParam(records, "valid", 0),
       invalid_records |-> GetParam(records, "invalid", 0),
       invalid_columns |-> GetParam(invalid_breakdown, "columns", 0),
       invalid_numeric |-> GetParam(invalid_breakdown, "numeric", 0),
       invalid_date_format |-> GetParam(invalid_breakdown, "date_format", 0),
       invalid_range |-> GetParam(invalid_breakdown, "range", 0),
       clamped_values |-> GetParam(report, "clamped_values", 0),
       missing_ids |-> GetParam(missing, "ids", 0),
       missing_dates |-> GetParam(missing, "dates", 0),
       future_dates |-> GetParam(date_anomalies, "future_dates", 0),
       risk_high |-> GetParam(risk_mix, "high", 0),
       risk_medium |-> GetParam(risk_mix, "medium", 0),
       risk_low |-> GetParam(risk_mix, "low", 0),
       alert_threshold |-> GetParam(report, "alert_threshold", 0),
       min_cohort_size |-> GetParam(report, "min_cohort_size", 0),
       source_label |-> Some(source_label) ]

\* the parameters of INSERT INTO runs (db_sync.main)
SyncReportParams(payload) ==
  LET records == Get(payload, "records", EmptyObject)
      invalid_breakdown == Get(payload, "invalid_breakdown", EmptyObject)
      missing == Get(payload, "missing", EmptyObject)
      date_anomalies == Get(payload, "date_anomalies", EmptyObject)
  IN [ reference_date |-> parse_reference_date(Get(payload, "reference_date", EmptyString)),
       alert_threshold |-> GetParam(payload, "alert_threshold", 0),
       min_cohort_size |-> GetParam(payload, "min_cohort_size", 0),
       valid_count |-> GetParam(records, "valid", 0),
       invalid_count |-> GetParam(records, "invalid", 0),
       invalid_columns |-> GetParam(invalid_breakdown, "columns", 0),
       invalid_numeric |-> GetParam(invalid_breakdown, "numeric", 0),
       invalid_date_format |-> GetParam(invalid_breakdown, "date_format", 0),
       invalid_range |-> GetParam(invalid_breakdown, "range", 0),
       clamped_values |-> GetParam(payload, "clamped_values", 0),
       missing_ids |-> GetParam(missing, "ids", 0),
       missing_dates |-> GetParam(missing, "dates", 0),
       future_dates |-> GetParam(date_anomalies, "future_dates", 0) ]

ReportParams(script, report, source_label) ==
  IF script = "postgres_ingest" THEN IngestReportParams(report, source_label)
  ELSE SyncReportParams(report)

\* one element of the parameter list of INSERT INTO top_risks
IngestTopParams(report_id, entry) ==
  [ report_id |-> Some(report_id),
    scholar_id |-> GetOrNone(entry, "id"),
    cohort |-> GetOrNone(entry, "cohort"),
    score |-> GetOrNone(entry, "score"),
    days_since |-> GetOrNone(entry, "days_since"),
    touchpoints_30d |-> GetOrNone(entry, "touchpoints_30d"),
    attendance_rate |-> GetOrNone(entry, "attendance_rate"),
    satisfaction_score |-> GetOrNone(entry, "satisfaction_score") ]

SyncTopParams(run_id, item) ==
  [ run_id |-> Some(run_id),
    scholar_id |-> GetParam(item, "id", ""),
    cohort |-> GetParam(item, "cohort", ""),
    score |-> GetParam(item, "score", 0),
    days_since |-> GetParam(item, "days_since", 0),
    touchpoints_30d |-> GetParam(item, "touchpoints_30d", 0),
    attendance_rate |-> GetParam(item, "attendance_rate", 0),
    satisfaction_score |-> GetParam(item, "satisfaction_score", 0) ]

\* one element of the parameter list of INSERT INTO cohort_summaries / cohort_metrics
IngestCohortParams(report_id, entry) ==
  [ report_id |-> Some(report_id),
    cohort |-> GetOrNone(entry, "cohort"),
    count |-> GetOrNone(entry, "count"),
    high |-> GetOrNone(entry, "high"),
    medium |-> GetOrNone(entry, "medium"),
    low |-> GetOrNone(entry, "low"),
    risk_index |-> GetParam(entry, "risk_index", 0),
    avg_touchpoints_30d |-> GetOrNone(entry, "avg_touchpoints_30d"),
    avg_attendance |-> GetOrNone(entry, "avg_attendance"),
    avg_satisfaction |-> GetOrNone(entry, "avg_satisfaction"),
    avg_days_since |-> GetOrNone(entry, "avg_days_since") ]

SyncCohortParams(run_id, item) ==
  [ run_id |-> Some(run_id),
    cohort |-> GetParam(item, "cohort", ""),
    count |-> GetParam(item, "count", 0),
    high |-> GetParam(item, "high", 0),
    medium |-> GetParam(item, "medium", 0),
    low |-> GetParam(item, "low", 0),
    risk_index |-> GetParam(item, "risk_index", 0),
    avg_touchpoints_30d |-> GetParam(item, "avg_touchpoints_30d", 0),
    avg_attendance |-> GetParam(item, "avg_attendance", 0),
    avg_satisfaction |-> GetParam(item, "avg_satisfaction", 0),
    avg_days_since |-> GetParam(item, "avg_days_since", 0) ]

\* one element of the parameter list of INSERT INTO alerts / cohort_alerts
IngestAlertParams(report_id, entry) ==
  [ report_id |-> Some(report_id),
    cohort |-> GetOrNone(entry, "cohort"),
    high_share |-> GetOrNone(entry, "high_share"),
    risk_index |-> GetParam(entry, "risk_index", 0),
    count |-> GetOrNone(entry, "count"),
    high |-> GetOrNone(entry, "high"),
    medium |-> GetOrNone(entry, "medium"),
    low |-> GetOrNone(entry, "low"),
    avg_days_since |-> GetOrNone(entry, "avg_days_since"),
    avg_attendance |-> GetOrNone(entry, "avg_attendance"),
    avg_satisfaction |-> GetOrNone(entry, "avg_satisfaction") ]

SyncAlertParams(run_id, item) ==
  [ run_id |-> Some(run_id),
    cohort |-> GetParam(item, "cohort", ""),
    high_share |-> GetParam(item, "high_share", 0),
    risk_index |-> GetParam(item, "risk_index", 0),
    count |-> GetParam(item, "count", 0),
    high |-> GetParam(item, "high", 0),
    medium |-> GetParam(item, "medium", 0),
    low |-> GetParam(item, "low", 0),
    avg_days_since |-> GetParam(item, "avg_days_since", 0),
    avg_attendance |-> GetParam(item, "avg_attendance", 0),
    avg_satisfaction |-> GetParam(item, "avg_satisfaction", 0) ]

ChildParams(script, r, id, entry) ==
  IF script = "postgres_ingest"
  THEN (IF r = "top" THEN IngestTopParams(id, entry)
        ELSE IF r = "cohort" THEN IngestCohortParams(id, entry)
        ELSE IngestAlertParams(id, entry))
  ELSE (IF r = "top" THEN SyncTopParams(id, entry)
        ELSE IF r = "cohort" THEN SyncCohortParams(id, entry)
        ELSE SyncAlertParams(id, entry))

\* the payload key of each child list
ListKey(r) == IF r = "top" THEN "top_risks" ELSE IF r = "cohort" THEN "cohorts" ELSE "alerts"

(***************************************************************************)
(* INSERT: assignment to the column types, constraints, defaults.          *)
(***************************************************************************)
\* mutant: the fraction digits beyond scale are cut off
QuantizeTruncating(v, scale) ==
  LET step == Pow10(4 - scale)
  IN IF v >= 0 THEN (v \div step) * step ELSE -((-v \div step) * step)

\* NUMERIC(prec, scale) rounds half away from zero to scale fraction digits
\* (values count 1/10000, so scale <= 4)
Quantize(v, scale) ==
  LET step == Pow10(4 - scale)
  IN IF v >= 0 THEN ((v + step \div 2) \div step) * step
     ELSE -(((-v + step \div 2) \div step) * step)

\* the value a column stores for a bound parameter
Coerce(def, val) ==
  IF val = NULL THEN NULL
  ELSE IF def.kind = "numeric" THEN Some(Quantize(val[1], def.scale))
  ELSE val

\* NOT NULL violation or numeric field overflow
Violates(def, val) ==
  \/ def.notnull /\ val = NULL
  \/ /\ def.kind = "numeric"
     /\ val # NULL
     /\ Abs(Quantize(val[1], def.scale)) >= Pow10(def.prec - def.scale) * Pow10(4)

\* the value of a column the INSERT does not name
ColumnDefault(def, id, now) ==
  IF def.dflt = "gen" THEN Some(id)
  ELSE IF def.dflt = "now" THEN Some(now)
  ELSE DefaultValue(def)

RowIds(rows, col) == {rows[i][col][1] : i \in 1..Len(rows)}

\* mutant: a row equal to an existing one in every column the INSERT names is
\* not inserted again (ON CONFLICT DO NOTHING on the payload columns)
InsertRowDeduplicating(v, defs, r, params, fk, idcol, id, now) ==
  IF v.cols[r] = {} \/ ~(DOMAIN params \subseteq v.cols[r]) THEN Raise(v)
  ELSE IF \E c \in DOMAIN params : Violates(ColDefOf(defs, c), params[c]) THEN Raise(v)
  ELSE IF fk # "" /\ params[fk][1] \notin RowIds(v.rows["report"], idcol) THEN Raise(v)
  ELSE LET row == [c \in v.cols[r] |->
                     IF c \in DOMAIN params THEN Coerce(ColDefOf(defs, c), params[c])
                     ELSE ColumnDefault(ColDefOf(defs, c), id, now)]
       IN IF \E old \in Range(v.rows[r]) : \A c \in DOMAIN params : old[c] = row[c]
          THEN Ok(v)
          ELSE Ok([v EXCEPT !.rows[r] = Append(@, row)])

\* INSERT INTO table (columns of params) VALUES (params); fk is the referencing
\* column ("" for the parent table), id the next generated identifier
InsertRow(v, defs, r, params, fk, idcol, id, now) ==
  IF v.cols[r] = {} \/ ~(DOMAIN params \subseteq v.cols[r]) THEN Raise(v)
  ELSE IF \E c \in DOMAIN params : Violates(ColDefOf(defs, c), params[c]) THEN Raise(v)
  ELSE IF fk # "" /\ params[fk][1] \notin RowIds(v.rows["report"], idcol) THEN Raise(v)
  ELSE LET row == [c \in v.cols[r] |->
                     IF c \in DOMAIN params THEN Coerce(ColDefOf(defs, c), params[c])
                     ELSE ColumnDefault(ColDefOf(defs, c), id, now)]
       IN Ok([v EXCEPT !.rows[r] = Append(@, row)])

\* executemany: the rows in list order, stopping at the first that raises
RECURSIVE InsertMany(_, _, _, _, _, _)
InsertMany(script, res, r, id, entries, i) ==
  IF i > Len(entries) \/ ~res.ok THEN res
  ELSE InsertMany(script,
                  InsertRow(res.v, TableDefs(script)[r], r, ChildParams(script, r, id, entries[i]),
                            FkCol(script), IdCol(script), 0, 0),
                  r, id, entries, i + 1)

\* mutant: the alerts table lacks ON DELETE CASCADE handling
DeleteNoAlertCascade(v, idcol, fk, id) ==
  [v EXCEPT !.rows = [r \in Roles |->
     SelectSeq(v.rows[r], LAMBDA row :
                 IF r = "report" THEN row[idcol] # Some(id)
                 ELSE IF r = "alert" THEN TRUE ELSE row[fk] # Some(id))]]

\* ON DELETE CASCADE: DELETE FROM reports WHERE id = ...
DeleteCascade(v, idcol, fk, id) ==
  [v EXCEPT !.rows = [r \in Roles |->
     SelectSeq(v.rows[r], LAMBDA row :
                 IF r = "report" THEN row[idcol] # Some(id) ELSE row[fk] # Some(id))]]

(***************************************************************************)
(* State.                                                                  *)
(*   script     the script this deployment runs                            *)
(*   db         the committed datastore (what any other reader sees)       *)
(*   generated  the identifier generator: generated[i] names the report    *)
(*              file the i-th identifier was generated for                 *)
(*   deleted    the identifiers of the reports an operator has deleted     *)
(*   runs       number of invocations started                              *)
(*   ingested   number of ingests that returned and were committed         *)
(*   tx         per process, the position of main() and its transaction    *)
(***************************************************************************)
VARIABLES script, db, generated, deleted, runs, ingested, tx

vars == <<script, db, generated, deleted, runs, ingested, tx>>

LockModes == {"RX", "S", "X"}

\* PostgreSQL table lock conflicts among ROW EXCLUSIVE, SHARE, ACCESS EXCLUSIVE
Conflict(m1, m2) ==
  \/ m1 = "X" \/ m2 = "X"
  \/ m1 = "S" /\ m2 = "RX"
  \/ m1 = "RX" /\ m2 = "S"

IdleTx ==
  [ pc |-> "idle", step |-> 0, setup |-> FALSE, ingest |-> FALSE, json |-> "none",
    opened |-> FALSE, issued |-> FALSE, error |-> "none", rid |-> 0, now |-> 0,
    waiting |-> FALSE,
    locks |-> [r \in Roles |-> {}],
    created |-> {},
    altered |-> {},
    cols |-> [r \in Roles |-> {}],
    base |-> [r \in Roles |-> << >>],
    ins |-> [r \in Roles |-> << >>] ]

IndexNames(sc) == {IndexDefs(sc)[i].name : i \in 1..Len(IndexDefs(sc))}

\* what the statements of p's transaction see: committed data and p's own writes
View(p) ==
  [ namespace |-> db.namespace \/ "namespace" \in tx[p].created,
    extension |-> db.extension \/ "extension" \in tx[p].created,
    cols |-> [r \in Roles |-> IF r \in tx[p].altered THEN tx[p].cols[r] ELSE db.cols[r]],
    indexes |-> db.indexes \cup (tx[p].created \cap IndexNames(script)),
    rows |-> [r \in Roles |->
                (IF r \in tx[p].altered THEN tx[p].base[r] ELSE db.rows[r]) \o tx[p].ins[r]] ]

\* p's transaction after a statement left its view as v
Absorb(t, v) ==
  LET altered == {r \in Roles : v.cols[r] # db.cols[r]}
  IN [t EXCEPT
        !.created = {o \in {"namespace"} : v.namespace /\ ~db.namespace}
                    \cup {o \in {"extension"} : v.extension /\ ~db.extension}
                    \cup (v.indexes \ db.indexes),
        !.altered = altered,
        !.cols = [r \in Roles |-> IF r \in altered THEN v.cols[r] ELSE {}],
        !.base = [r \in Roles |-> IF r \in altered
                                  THEN SubSeq(v.rows[r], 1, Len(db.rows[r])) ELSE << >>],
        !.ins = [r \in Roles |-> SubSeq(v.rows[r], Len(db.rows[r]) + 1, Len(v.rows[r]))]]

\* objects created in q's transaction and not yet committed
Pending(q) == tx[q].created \cup {r \in tx[q].altered : db.cols[r] = {}}

\* objects a setup step creates when it does not see them
StepObjects(sc, step) ==
  IF step = "namespace"
  THEN (IF sc = "postgres_ingest" THEN {"namespace", "extension"} ELSE {"namespace"})
  ELSE IF step = "indexes" THEN IndexNames(sc)
  ELSE {step}

\* table locks a setup step takes: ALTER TABLE and CREATE TABLE take ACCESS
\* EXCLUSIVE, CREATE INDEX takes SHARE, all held to the end of the transaction
StepLocks(sc, step, v) ==
  [r \in Roles |->
     IF step = r /\ (Len(AddedDefs(sc)[r]) > 0 \/ v.cols[r] = {}) THEN {"X"}
     ELSE IF step = "indexes" /\ \E i \in 1..Len(IndexDefs(sc)) : IndexDefs(sc)[i].role = r
          THEN {"S"}
     ELSE {}]

InsertLocks(role) == [r \in Roles |-> IF r = role THEN {"RX"} ELSE {}]

\* p must wait: another transaction holds a conflicting table lock
LockBlocked(p, needs) ==
  \E q \in Procs \ {p}, r \in Roles :
     \E m1 \in needs[r], m2 \in tx[q].locks[r] : Conflict(m1, m2)

\* p must wait: another open transaction has created an object p is about to create
CreateBlocked(p, objects) ==
  \E q \in Procs \ {p} : objects \cap Pending(q) # {}

Acquire(t, needs) == [t EXCEPT !.locks = [r \in Roles |-> @[r] \cup needs[r]]]

CurrentStep(p) == SetupSteps(script)[tx[p].step]

TypeOK ==
  /\ script \in Scripts
  /\ runs \in 0..MaxRuns
  /\ \A p \in Procs :
       tx[p].pc \in {"idle", "load", "setup", "report", "top", "cohort", "alert",
                     "commit", "failed"}

\* the namespace once setup_schema / ensure_schema has run on it
CurrentStore(sc) == setup_schema(sc, EmptyStore).v

\* a deployment starts on a fresh namespace or on one already set up
Init ==
  /\ script \in Scripts
  /\ db \in {EmptyStore, CurrentStore(script)}
  /\ generated = << >>
  /\ deleted = {}
  /\ runs = 0
  /\ ingested = 0
  /\ tx = [p \in Procs |-> IdleTx]

(***************************************************************************)
(* main(): one action per statement.                                       *)
(***************************************************************************)
\* p's run with its transaction open: with engine.begin() as conn / psycopg.connect
\* and with connection
Begun(t) ==
  [t EXCEPT !.opened = TRUE,
            !.pc = IF t.setup THEN "setup" ELSE "load",
            !.step = IF t.setup THEN 1 ELSE 0]

\* parse_args and the argument checks of main(): db_sync always sets up and
\* ingests and loads the file first, postgres_ingest opens its transaction first.
\* The two processes are interchangeable: "b" is used only while "a" is busy.
Start(p) ==
  /\ tx[p].pc = "idle"
  /\ p = "a" \/ tx["a"].pc # "idle"
  /\ runs < MaxRuns
  /\ \E setup \in BOOLEAN, ingest \in BOOLEAN :
       /\ setup \/ ingest
       /\ script = "db_sync" => setup /\ ingest
       /\ LET t == [IdleTx EXCEPT !.setup = setup, !.ingest = ingest, !.now = runs + 1]
          IN tx' = [tx EXCEPT ![p] = IF script = "postgres_ingest" THEN Begun(t)
                                     ELSE [t EXCEPT !.pc = "load"]]
  /\ runs' = runs + 1
  /\ UNCHANGED <<script, ingested, db, generated, deleted>>

\* load_report(args.json) inside the transaction / load_json(args.json) before
\* the connection is opened, --json naming one of files
LoadFrom(p, files) ==
  /\ tx[p].pc = "load"
  /\ \E json \in files :
       tx' = [tx EXCEPT ![p] =
                IF json \in ReportNames
                THEN (IF script = "postgres_ingest" THEN [@ EXCEPT !.json = json, !.pc = "report"]
                      ELSE Begun([@ EXCEPT !.json = json]))
                ELSE [@ EXCEPT !.json = json, !.pc = "failed", !.error = "input"]]
  /\ UNCHANGED <<script, ingested, db, generated, deleted, runs>>

Load(p) == LoadFrom(p, JsonFiles)

\* where main() goes after setup_schema / ensure_schema
AfterSetup(sc, ingest) ==
  IF sc = "db_sync" THEN "report" ELSE IF ingest THEN "load" ELSE "commit"

\* a CREATE ... IF NOT EXISTS that waits for another transaction's creation of
\* the same object
WaitOnCreate(p) ==
  /\ tx[p].pc = "setup"
  /\ ~tx[p].waiting
  /\ CreateBlocked(p, StepObjects(script, CurrentStep(p)))
  /\ tx' = [tx EXCEPT ![p].waiting = TRUE, ![p].issued = TRUE]
  /\ UNCHANGED <<script, ingested, db, generated, deleted, runs>>

\* the object p waited for was committed by its creator: duplicate key
Duplicate(p) ==
  /\ tx[p].waiting
  /\ \/ "namespace" \in StepObjects(script, CurrentStep(p)) /\ db.namespace
     \/ \E r \in Roles : r \in StepObjects(script, CurrentStep(p)) /\ db.cols[r] # {}
     \/ StepObjects(script, CurrentStep(p)) \cap db.indexes # {}

\* the statements of setup_schema / ensure_schema on one object
SetupStmt(p) ==
  /\ tx[p].pc = "setup"
  /\ LET step == CurrentStep(p)
         needs == StepLocks(script, step, View(p))
         res == SetupStep(script, View(p), step)
         last == tx[p].step = Len(SetupSteps(script))
     IN /\ ~CreateBlocked(p, StepObjects(script, step))
        /\ ~LockBlocked(p, needs)
        /\ tx' = [tx EXCEPT ![p] =
                    IF res.ok /\ ~Duplicate(p)
                    THEN [Acquire(Absorb(@, res.v), needs) EXCEPT
                            !.issued = TRUE, !.waiting = FALSE,
                            !.step = IF last THEN 0 ELSE @ + 1,
                            !.pc = IF last THEN AfterSetup(script, tx[p].ingest) ELSE "setup"]
                    ELSE [@ EXCEPT !.issued = TRUE, !.waiting = FALSE,
                                   !.pc = "failed", !.error = "schema"]]
  /\ UNCHANGED <<script, ingested, db, generated, deleted, runs>>

\* the statement after the insert into role r: the batch insert of the next
\* child list that is not empty ("if top_risks:" ...), else the end of the block
RECURSIVE NextPc(_, _)
NextPc(report, r) ==
  LET next == IF r = "report" THEN "top" ELSE IF r = "top" THEN "cohort"
              ELSE IF r = "cohort" THEN "alert" ELSE "commit"
  IN IF next = "commit" \/ Get(report, ListKey(next), << >>) # << >> THEN next
     ELSE NextPc(report, next)

\* mutant: the identifier is one more than the number of committed reports
NextIdFromTable == Len(db.rows["report"]) + 1

\* DEFAULT gen_random_uuid() / SERIAL: an identifier never generated before
NextId == Len(generated) + 1

\* mutant: the identifier read back is the number of report rows, not the
\* value the insert returned
InsertReportReadsCount(p) ==
  /\ tx[p].pc = "report"
  /\ ~LockBlocked(p, InsertLocks("report"))
  /\ LET id == NextId
         res == InsertRow(View(p), TableDefs(script)["report"], "report",
                          ReportParams(script, SampleReports[tx[p].json], tx[p].json),
                          "", IdCol(script), id, tx[p].now)
     IN IF res.ok
        THEN /\ tx' = [tx EXCEPT ![p] =
                         [Acquire(Absorb(@, res.v), InsertLocks("report")) EXCEPT
                            !.issued = TRUE, !.rid = Len(res.v.rows["report"]),
                            !.pc = NextPc(SampleReports[tx[p].json], "report")]]
             /\ generated' = Append(generated, tx[p].json)
        ELSE /\ tx' = [tx EXCEPT ![p] =
                         [@ EXCEPT !.issued = TRUE, !.pc = "failed", !.error = "persistence"]]
             /\ UNCHANGED generated
  /\ UNCHANGED <<script, ingested, db, deleted, runs>>

\* mutant: the connection autocommits the parent insert
InsertReportAutocommit(p) ==
  /\ tx[p].pc = "report"
  /\ ~LockBlocked(p, InsertLocks("report"))
  /\ LET id == NextId
         res == InsertRow(View(p), TableDefs(script)["report"], "report",
                          ReportParams(script, SampleReports[tx[p].json], tx[p].json),
                          "", IdCol(script), id, tx[p].now)
     IN /\ res.ok
        /\ db' = res.v
        /\ tx' = [tx EXCEPT ![p] = [@ EXCEPT !.issued = TRUE, !.rid = id,
                                             !.pc = NextPc(SampleReports[tx[p].json], "report")]]
        /\ generated' = Append(generated, tx[p].json)
  /\ UNCHANGED <<script, ingested, deleted, runs>>

\* INSERT INTO reports ... RETURNING report_id / INSERT INTO runs ... RETURNING id
InsertReport(p) ==
  /\ tx[p].pc = "report"
  /\ ~LockBlocked(p, InsertLocks("report"))
  /\ LET id == NextId
         res == InsertRow(View(p), TableDefs(script)["report"], "report",
                          ReportParams(script, SampleReports[tx[p].json], tx[p].json),
                          "", IdCol(script), id, tx[p].now)
     IN IF res.ok
        THEN /\ tx' = [tx EXCEPT ![p] =
                         [Acquire(Absorb(@, res.v), InsertLocks("report")) EXCEPT
                            !.issued = TRUE, !.rid = id,
                            !.pc = NextPc(SampleReports[tx[p].json], "report")]]
             /\ generated' = Append(generated, tx[p].json)
        ELSE /\ tx' = [tx EXCEPT ![p] =
                         [@ EXCEPT !.issued = TRUE, !.pc = "failed", !.error = "persistence"]]
             /\ UNCHANGED generated
  /\ UNCHANGED <<script, ingested, db, deleted, runs>>

\* the batch insert of one child table
InsertChildren(p, r) ==
  /\ tx[p].pc = r
  /\ ~LockBlocked(p, InsertLocks(r))
  /\ LET report == SampleReports[tx[p].json]
         res == InsertMany(script, Ok(View(p)), r, tx[p].rid, report[ListKey(r)], 1)
     IN tx' = [tx EXCEPT ![p] =
                 IF res.ok
                 THEN [Acquire(Absorb(@, res.v), InsertLocks(r)) EXCEPT !.pc = NextPc(report, r)]
                 ELSE [Absorb(@, res.v) EXCEPT !.pc = "failed", !.error = "persistence"]]
  /\ UNCHANGED <<script, ingested, db, generated, deleted, runs>>

\* leaving the with block normally: commit
Commit(p) ==
  /\ tx[p].pc = "commit"
  /\ db' = View(p)
  /\ ingested' = IF tx[p].ingest THEN ingested + 1 ELSE ingested
  /\ tx' = [tx EXCEPT ![p] = IdleTx]
  /\ UNCHANGED <<script, generated, deleted, runs>>

\* mutant: the writes of a failed run stay in the datastore
RollbackKeeps(p) ==
  /\ tx[p].pc = "failed"
  /\ db' = View(p)
  /\ tx' = [tx EXCEPT ![p] = IdleTx]
  /\ UNCHANGED <<script, ingested, generated, deleted, runs>>

\* leaving the with block on an exception: rollback (nothing to roll back when
\* the error was raised before the connection was opened)
Rollback(p) ==
  /\ tx[p].pc = "failed"
  /\ tx' = [tx EXCEPT ![p] = IdleTx]
  /\ UNCHANGED <<script, ingested, db, generated, deleted, runs>>

\* the connection is lost at a statement or at commit: the server aborts the
\* transaction at once, the script sees the exception
Fail(p) ==
  /\ tx[p].pc \in {"setup", "report", "top", "cohort", "alert", "commit"}
  /\ tx' = [tx EXCEPT ![p] = [IdleTx EXCEPT !.pc = "failed", !.error = "connection",
                                            !.opened = TRUE, !.issued = TRUE]]
  /\ UNCHANGED <<script, ingested, db, generated, deleted, runs>>

\* an operator deletes one report: DELETE FROM reports WHERE report_id = id
Delete(id) ==
  /\ id \in RowIds(db.rows["report"], IdCol(script))
  /\ \A p \in Procs, r \in Roles : tx[p].locks[r] \cap {"S", "X"} = {}
  /\ db' = DeleteCascade(db, IdCol(script), FkCol(script), id)
  /\ deleted' = deleted \cup {id}
  /\ UNCHANGED <<script, ingested, generated, runs, tx>>

Next ==
  \/ \E p \in Procs : Start(p)
  \/ \E p \in Procs : Load(p)
  \/ \E p \in Procs : WaitOnCreate(p)
  \/ \E p \in Procs : SetupStmt(p)
  \/ \E p \in Procs : InsertReport(p)
  \/ \E p \in Procs, r \in ChildRoles : InsertChildren(p, r)
  \/ \E p \in Procs : Commit(p)
  \/ \E p \in Procs : Rollback(p)
  \/ \E p \in Procs : Fail(p)
  \/ \E id \in 1..Len(generated) : Delete(id)

Spec == Init /\ [][Next]_vars

(***************************************************************************)
(* Namespaces built from an older shape: the tables exist, lack some of    *)
(* the later-introduced columns, and hold rows written at that shape.      *)
(***************************************************************************)
LegacyValue(def) ==
  IF def.kind = "key" THEN Some(1)
  ELSE IF def.kind = "time" THEN Some(0)
  ELSE IF def.kind = "int" THEN Some(7)
  ELSE IF def.kind = "numeric" THEN Some(Quantize(12345, def.scale))
  ELSE IF def.kind = "date" THEN Some(<<2025, 12, 31>>)
  ELSE IF def.name = "reference_date" THEN Some(<<"2025", "12", "31">>)
  ELSE IF def.name = "cohort_filter" THEN Some(<<"A">>)
  ELSE Some("legacy")

LegacyStore(sc, lacking) ==
  LET cols == [r \in Roles |-> CurrentShape(sc)[r] \ lacking[r]]
  IN [ namespace |-> TRUE, extension |-> sc = "postgres_ingest",
       cols |-> cols, indexes |-> IndexNames(sc),
       rows |-> [r \in Roles |->
                   << [c \in cols[r] |-> LegacyValue(ColDefOf(TableDefs(sc)[r], c))] >>] ]

\* the shapes the older namespaces lack: everything added later; everything but
\* the first added column; only the last added column
LegacyLacks(sc) ==
  { AddedCols(sc),
    [r \in Roles |-> IF r = "cohort" THEN {} ELSE AddedCols(sc)[r] \ {"future_dates"}],
    [r \in Roles |-> IF r = "report" THEN {"clamped_values"}
                     ELSE IF r = "cohort" THEN {"risk_index"} ELSE {}] }

LegacyStores(sc) == {LegacyStore(sc, lacking) : lacking \in LegacyLacks(sc)}

LegacyFiles == {"missing", "full"}

LegacyInit ==
  /\ script \in Scripts
  /\ \/ db \in {EmptyStore, CurrentStore(script)} /\ generated = << >>
     \/ db \in LegacyStores(script) /\ generated = <<"legacy">>
  /\ deleted = {}
  /\ runs = 0
  /\ ingested = 0
  /\ tx = [p \in Procs |-> IdleTx]

LegacyLoad(p) == LoadFrom(p, LegacyFiles)

LegacyNext ==
  \/ \E p \in Procs : Start(p)
  \/ \E p \in Procs : LegacyLoad(p)
  \/ \E p \in Procs : WaitOnCreate(p)
  \/ \E p \in Procs : SetupStmt(p)
  \/ \E p \in Procs : InsertReport(p)
  \/ \E p \in Procs, r \in ChildRoles : InsertChildren(p, r)
  \/ \E p \in Procs : Commit(p)
  \/ \E p \in Procs : Rollback(p)
  \/ \E p \in Procs : Fail(p)
  \/ \E id \in 1..Len(generated) : Delete(id)

LegacySpec == LegacyInit /\ [][LegacyNext]_vars

(***************************************************************************)
(* Properties.                                                             *)
(***************************************************************************)
ReportIds(v) == RowIds(v.rows["report"], IdCol(script))

\* every identifier a row of v carries, as its own or as its parent's
IdsIn(v) ==
  ReportIds(v) \cup UNION {RowIds(v.rows[r], FkCol(script)) : r \in ChildRoles}

ChildrenOf(v, r, id) == SelectSeq(v.rows[r], LAMBDA row : row[FkCol(script)] = Some(id))

\* the child list of the report file identifier id was generated for
EntriesOf(id, r) == Get(SampleReports[generated[id]], ListKey(r), << >>)

\* C1: a run that fails at any point of its ingest is rolled back: no row carrying
\* the identifier of an open or failed run is in the datastore, the step a failed
\* run takes resets it and leaves the datastore as it was, and rows with a new
\* identifier enter the datastore only when the run that wrote them commits.
C1_Atomicity ==
  /\ [](\A p \in Procs : tx[p].rid # 0 => tx[p].rid \notin IdsIn(db))
  /\ [][\A p \in Procs :
          /\ (tx[p].pc = "failed" /\ tx'[p] # tx[p]) => (tx'[p] = IdleTx /\ db' = db)
          /\ \A id \in IdsIn(db') \ IdsIn(db) :
               \E q \in Procs : tx[q].pc = "commit" /\ tx[q].rid = id /\ tx'[q] = IdleTx]_vars

\* a run whose last alert row was rejected, after parent, top-risk and first
\* alert row had been written, has been rolled back
C1_Witness ==
  \E id \in 1..Len(generated) :
    /\ generated[id] = "overflow"
    /\ id \notin IdsIn(db)
    /\ \A p \in Procs : tx[p].rid # id /\ tx[p].pc = "idle"

\* C2: in the committed datastore every report row has exactly as many rows in each
\* child table as its payload's list has entries, and every child row references a
\* report row that is there.
C2_NoPartialReport ==
  \A r \in ChildRoles :
    /\ RowIds(db.rows[r], FkCol(script)) \subseteq ReportIds(db)
    /\ \A id \in ReportIds(db) : Len(ChildrenOf(db, r, id)) = Len(EntriesOf(id, r))

\* a run is between its child inserts while a complete report is committed
C2_Witness ==
  /\ \E id \in ReportIds(db) : Len(ChildrenOf(db, "alert", id)) = 2
  /\ \E p \in Procs : tx[p].pc = "alert" /\ tx[p].ins["top"] # << >> /\ tx[p].rid \notin ReportIds(db)

\* C3: on every namespace the deployment reaches (fresh, current or older shape)
\* running setup twice in succession succeeds both times and leaves what one run leaves.
C3_SetupIdempotent ==
  LET once == setup_schema(script, db)
      twice == setup_schema(script, once.v)
  IN once.ok /\ twice.ok /\ twice.v = once.v

\* db_sync ran ensure_schema in two committed runs on a namespace of an older shape
C3_Witness ==
  /\ script = "db_sync"
  /\ \A t \in 0..2 : \E i \in 1..Len(db.rows["report"]) :
       /\ db.rows["report"][i]["created_at"] = Some(t)
       /\ DOMAIN db.rows["report"][i] = CurrentShape(script)["report"]

\* C4: a step never removes a column; when it changes the columns of an existing
\* table it adds only later-introduced columns, reaches the current shape, keeps
\* every existing row's existing values and gives the added columns their default
\* 0 in those rows; a committed setup leaves every table at the current shape.
C4_SetupAdditive ==
  [][/\ \A r \in Roles :
          /\ db.cols[r] \subseteq db'.cols[r]
          /\ (db.cols[r] # {} /\ db'.cols[r] # db.cols[r]) =>
               /\ db'.cols[r] \ db.cols[r] \subseteq AddedCols(script)[r]
               /\ db'.cols[r] = CurrentShape(script)[r]
               /\ Len(db'.rows[r]) >= Len(db.rows[r])
               /\ \A i \in 1..Len(db.rows[r]) : \A c \in db'.cols[r] :
                    db'.rows[r][i][c] = IF c \in db.cols[r] THEN db.rows[r][i][c] ELSE Some(0)
     /\ (\E p \in Procs : tx[p].pc = "commit" /\ tx[p].setup /\ tx'[p] = IdleTx)
          => db'.cols = CurrentShape(script)]_vars

\* a row written at an older shape now carries an added column at its default
C4_Witness ==
  \E i \in 1..Len(db.rows["report"]) :
    LET row == db.rows["report"][i]
    IN /\ row["created_at"] = Some(0)
       /\ DOMAIN row = CurrentShape(script)["report"]
       /\ row["clamped_values"] = Some(0)
       /\ row["missing_ids"] = Some(7)

\* the columns of the parent table that hold counts, and its optional scalars
ValidCol == IF script = "postgres_ingest" THEN "valid_records" ELSE "valid_count"

OtherCountCols ==
  {"invalid_columns", "invalid_numeric", "invalid_date_format", "invalid_range",
   "clamped_values", "missing_ids", "missing_dates", "future_dates"}
  \cup (IF script = "postgres_ingest"
        THEN {"invalid_records", "risk_high", "risk_medium", "risk_low"}
        ELSE {"invalid_count"})

OptionalScalarCols ==
  IF script = "postgres_ingest" THEN {"reference_date", "cohort_filter"} ELSE {"reference_date"}

\* the committed parent row with identifier id
ReportRow(id) ==
  CHOOSE row \in Range(db.rows["report"]) : row[IdCol(script)] = Some(id)

\* C5 (as claimed): every committed report ingested from {"records": {"valid": 5}}
\* has the valid count 5, every other count 0, every optional scalar column null
\* and no row in any child table.
C5_DefaultFilling ==
  \A id \in ReportIds(db) :
    generated[id] = "only_valid" =>
      /\ ReportRow(id)[ValidCol] = Some(5)
      /\ \A c \in OtherCountCols : ReportRow(id)[c] = Some(0)
      /\ \A c \in OptionalScalarCols : ReportRow(id)[c] = NULL
      /\ \A r \in ChildRoles : ChildrenOf(db, r, id) = << >>

\* the reports of the sample none of whose present values is out of range: any
\* failure of theirs to insert comes from a field that is absent
AbsentOnly == {"only_valid", "sparse"}

\* C6 (as claimed): absent fields never make an insert of the ingest raise, and the
\* rows committed for entries with absent fields hold the defaults.
C6_AbsenceNotError ==
  /\ \A p \in Procs :
       (tx[p].pc \in ChildRoles /\ tx[p].json \in AbsentOnly) =>
         InsertMany(script, Ok(View(p)), tx[p].pc, tx[p].rid,
                    Get(SampleReports[tx[p].json], ListKey(tx[p].pc), << >>), 1).ok
  /\ \A id \in ReportIds(db) :
       generated[id] = "sparse" =>
         /\ ReportRow(id)[ValidCol] = Some(0)
         /\ ChildrenOf(db, "top", id)[1]["score"] = Some(0)
         /\ ChildrenOf(db, "cohort", id)[1]["high"] = Some(0)

SevenFields ==
  {"id", "cohort", "score", "days_since", "touchpoints_30d", "attendance_rate",
   "satisfaction_score"}

\* the top-risk row stored for the k-th entry of the report with identifier id
TopRow(id, k) == ChildrenOf(db, "top", id)[k]

ExactFields(row, entry) ==
  /\ row["scholar_id"] = Some(entry["id"])
  /\ row["cohort"] = Some(entry["cohort"])
  /\ row["score"] = Some(entry["score"])
  /\ row["days_since"] = Some(entry["days_since"])
  /\ row["touchpoints_30d"] = Some(entry["touchpoints_30d"])

\* C7 (as claimed): the stored top-risk row of an entry with all seven fields has
\* exactly the supplied values.
C7_RoundTripExact ==
  \A id \in ReportIds(db) : \A k \in 1..Len(EntriesOf(id, "top")) :
    LET entry == EntriesOf(id, "top")[k]
    IN DOMAIN entry = SevenFields =>
         /\ ExactFields(TopRow(id, k), entry)
         /\ TopRow(id, k)["attendance_rate"] = Some(entry["attendance_rate"])
         /\ TopRow(id, k)["satisfaction_score"] = Some(entry["satisfaction_score"])

\* stored is supplied rounded half away from zero to digits fraction digits
RoundedTo(stored, supplied, digits) ==
  LET step == Pow10(4 - digits)
  IN /\ stored # NULL
     /\ stored[1] % step = 0
     /\ 2 * Abs(stored[1] - supplied) <= step
     /\ 2 * Abs(stored[1] - supplied) = step => Abs(stored[1]) > Abs(supplied)

\* C7 (amended): the stored row has exactly the supplied identifier, cohort, score,
\* days_since and touchpoints_30d; attendance_rate and satisfaction_score are the
\* supplied values rounded to the fraction digits of their column (2 and 2 in
\* postgres_ingest, 3 and 2 in db_sync), hence exact when they have no more digits.
C7_RoundTripToScale ==
  \A id \in ReportIds(db) : \A k \in 1..Len(EntriesOf(id, "top")) :
    LET entry == EntriesOf(id, "top")[k]
    IN DOMAIN entry = SevenFields =>
         /\ ExactFields(TopRow(id, k), entry)
         /\ RoundedTo(TopRow(id, k)["attendance_rate"], entry["attendance_rate"],
                      IF script = "postgres_ingest" THEN 2 ELSE 3)
         /\ RoundedTo(TopRow(id, k)["satisfaction_score"], entry["satisfaction_score"], 2)

\* a committed report whose first top-risk entry is stored as supplied and whose
\* second has more fraction digits than the column keeps
C7_Witness ==
  \E id \in ReportIds(db) :
    /\ generated[id] = "full"
    /\ TopRow(id, 1)["attendance_rate"] = Some(5000)
    /\ TopRow(id, 1)["satisfaction_score"] = Some(32000)
    /\ TopRow(id, 2)["attendance_rate"] # Some(8755)

\* C8: the step that deletes a report leaves no row carrying its identifier and
\* leaves every other report row and the child rows of every other report as they were.
C8_CascadeDelete ==
  [][\A id \in deleted' \ deleted :
       /\ id \notin IdsIn(db')
       /\ ReportIds(db') = ReportIds(db) \ {id}
       /\ \A j \in ReportIds(db') :
            /\ SelectSeq(db'.rows["report"], LAMBDA row : row[IdCol(script)] = Some(j))
                 = SelectSeq(db.rows["report"], LAMBDA row : row[IdCol(script)] = Some(j))
            /\ \A r \in ChildRoles : ChildrenOf(db', r, j) = ChildrenOf(db, r, j)
       /\ \A r \in ChildRoles :
            Len(db'.rows[r]) = Len(db.rows[r]) - Len(ChildrenOf(db, r, id))]_vars

\* a report with child rows in all three tables was deleted and another report
\* still has its child rows
C8_Witness ==
  /\ \E id \in deleted : generated[id] = "full"
  /\ \E j \in ReportIds(db) :
       /\ Len(ChildrenOf(db, "top", j)) = 2
       /\ Len(ChildrenOf(db, "cohort", j)) = 1
       /\ Len(ChildrenOf(db, "alert", j)) = 2

InsertPcs == {"report", "top", "cohort", "alert"}

\* p is at a statement that must wait for another transaction
Waits(p) ==
  \/ /\ tx[p].pc = "setup"
     /\ \/ CreateBlocked(p, StepObjects(script, CurrentStep(p)))
        \/ LockBlocked(p, StepLocks(script, CurrentStep(p), View(p)))
  \/ tx[p].pc = "report" /\ LockBlocked(p, InsertLocks("report"))
  \/ tx[p].pc \in ChildRoles /\ LockBlocked(p, InsertLocks(tx[p].pc))

\* C9: two open ingests hold distinct identifiers; the rows each has written carry
\* its own identifier only; committed identifiers are unique; the two never wait
\* for each other, and an ingest waits only for a transaction that set up the
\* schema; a step of one transaction leaves the other's rows alone, and a commit
\* only appends to the committed rows.
C9_Independence ==
  /\ [](/\ \A p \in Procs, q \in Procs :
             (p # q /\ tx[p].rid # 0) => tx[p].rid # tx[q].rid
        /\ \A p \in Procs :
             /\ RowIds(tx[p].ins["report"], IdCol(script)) \subseteq {tx[p].rid}
             /\ \A r \in ChildRoles : RowIds(tx[p].ins[r], FkCol(script)) \subseteq {tx[p].rid}
        /\ Cardinality(ReportIds(db)) = Len(db.rows["report"])
        /\ ~(\A p \in Procs : Waits(p))
        /\ \A p \in Procs :
             (tx[p].pc \in InsertPcs /\ Waits(p)) => \E q \in Procs \ {p} : tx[q].setup)
  /\ [][/\ \A p \in Procs, q \in Procs :
             (p # q /\ tx'[p] # tx[p]) => tx'[q] = tx[q]
        /\ deleted' = deleted =>
             \A r \in Roles : /\ Len(db'.rows[r]) >= Len(db.rows[r])
                              /\ SubSeq(db'.rows[r], 1, Len(db.rows[r])) = db.rows[r]]_vars

\* two ingests of distinct reports have both written all their rows and are both
\* about to commit
C9_Witness ==
  /\ tx["a"].pc = "commit" /\ tx["b"].pc = "commit"
  /\ tx["a"].json = "full" /\ tx["b"].json = "only_valid"
  /\ tx["a"].rid # 0 /\ tx["b"].rid # 0
  /\ Len(tx["a"].ins["alert"]) = 2

\* C10 (as claimed): when loading the payload has failed, the run has opened no
\* transaction and issued no statement.
C10_InputErrorBeforeTransaction ==
  \A p \in Procs : tx[p].error = "input" => ~tx[p].opened /\ ~tx[p].issued

\* the identifiers of the parent rows p's transaction has written, and of the
\* parents its child rows in table r reference
OwnReportIds(p) == RowIds(tx[p].ins["report"], IdCol(script))
OwnParentIds(p, r) == RowIds(tx[p].ins[r], FkCol(script))

\* C11: within one ingest the parent row is inserted and its generated identifier
\* read back before any child insert is issued: a run at a child insert, or with
\* child rows written, has written exactly one parent row and holds its
\* identifier; every child row it has written references that identifier; the
\* identifier does not change while the run goes on; a child row is written only
\* by a run that already holds the identifier of its parent row; and the
\* identifier the ingest returns is the one of the report its commit adds.
C11_ParentBeforeChildren ==
  /\ [](\A p \in Procs :
          /\ (\/ tx[p].pc \in ChildRoles
              \/ tx[p].pc = "commit" /\ tx[p].ingest
              \/ \E r \in ChildRoles : tx[p].ins[r] # << >>) =>
                /\ tx[p].rid # 0
                /\ Len(tx[p].ins["report"]) = 1
                /\ OwnReportIds(p) = {tx[p].rid}
          /\ \A r \in ChildRoles : OwnParentIds(p, r) \subseteq {tx[p].rid})
  /\ [][\A p \in Procs :
          /\ (tx[p].rid # 0 /\ tx'[p].pc \notin {"idle", "failed"}) => tx'[p].rid = tx[p].rid
          /\ \A r \in ChildRoles :
               Len(tx'[p].ins[r]) > Len(tx[p].ins[r]) =>
                 /\ tx[p].rid # 0
                 /\ OwnReportIds(p) = {tx[p].rid}
                 /\ tx'[p].ins["report"] = tx[p].ins["report"]
          /\ (tx[p].pc = "commit" /\ tx[p].ingest /\ tx'[p] = IdleTx) =>
               ReportIds(db') \ ReportIds(db) = {tx[p].rid}]_vars

\* an ingest has written the rows of all three child tables under the second
\* identifier generated, the first having gone to a run that did not commit
C11_Witness ==
  \E p \in Procs :
    /\ tx[p].pc = "commit"
    /\ tx[p].rid = 2
    /\ 1 \notin ReportIds(db)
    /\ Len(tx[p].ins["report"]) = 1
    /\ \A r \in ChildRoles : tx[p].ins[r] # << >> /\ OwnParentIds(p, r) = {2}

\* C12: ingestion appends and never deduplicates: while nothing has been deleted
\* the datastore holds exactly one report row per committed ingest, all with
\* distinct identifiers; the commit of an ingest adds exactly one report row,
\* whose identifier no report row, deleted report or other run carries, whatever
\* the payload and whatever happened to earlier attempts; and no step changes a
\* report row that is there (a row leaves only when it is deleted).
C12_AppendOnly ==
  /\ [](/\ deleted = {} => Len(db.rows["report"]) = ingested
        /\ Cardinality(ReportIds(db)) = Len(db.rows["report"]))
  /\ [][/\ \A p \in Procs :
            (tx[p].pc = "commit" /\ tx[p].ingest /\ tx'[p] = IdleTx) =>
              /\ Len(db'.rows["report"]) = Len(db.rows["report"]) + 1
              /\ SubSeq(db'.rows["report"], 1, Len(db.rows["report"])) = db.rows["report"]
              /\ ReportIds(db') \ ReportIds(db) = {tx[p].rid}
              /\ tx[p].rid \notin ReportIds(db) \cup deleted
              /\ \A q \in Procs \ {p} : tx[q].rid # tx[p].rid
        /\ \A row \in Range(db.rows["report"]) :
             \/ row \in Range(db'.rows["report"])
             \/ row[IdCol(script)][1] \in deleted' \ deleted]_vars

\* two ingests of the same report file have both committed: two report rows
C12_Witness ==
  /\ ingested = 2
  /\ deleted = {}
  /\ ReportIds(db) = {1, 2}
  /\ generated[1] = generated[2]

\* C13 (as claimed): every count column of every committed report row holds a
\* non-negative integer and its alert threshold a non-negative number.
C13_CountsNonNegative ==
  \A row \in Range(db.rows["report"]) :
    /\ \A c \in {ValidCol} \cup OtherCountCols : row[c] # NULL /\ row[c][1] \in Nat
    /\ row["alert_threshold"] # NULL /\ row["alert_threshold"][1] >= 0

====
